---- MODULE Spec2Model ----
(***************************************************************************)
(* Model of ciel-rs src/common.rs: the workspace bootstrap helpers         *)
(* (ciel_init, extract_system_tarball, is_legacy_workspace,                *)
(* find_ciel_dir) and the architecture helpers (check_arch_name,           *)
(* get_host_arch_name / get_arch_name).                                    *)
(*                                                                         *)
(* Paths are sequences of components, file contents are sequences of      *)
(* bytes, a directory's contents are a set of <<name, attributes>> pairs   *)
(* with one pair per name.  All calls are synchronous: the only call that  *)
(* takes more than one step is find_ciel_dir, one step per loop pass.      *)
(***************************************************************************)
EXTENDS Integers, Sequences, FiniteSets, TLC

VARIABLES
    parent,   \* directory tree above the working directory: node -> parent node
    dev,      \* node -> device id (MetadataExt::dev)
    marker,   \* node -> what the name ".ciel" is in that directory (nodes other than Cwd)
    fs,       \* the working directory below ".ciel": [kind, version, content]
    host,     \* the platform the binary was built for and runs on
    call,     \* the call in progress or the last call made, with its result
    inited    \* history: ciel_init returned Ok and only installs and queries followed

vars == <<parent, dev, marker, fs, host, call, inited>>

(***************************** bounds **************************************)
\* number of directories of the tree; node 1 is the filesystem root
NumDirs == 3
\* number of ".." components the platform accepts in one path before a
\* lookup of the path fails (path text too long)
MaxJoins == 4
\* largest version number whose decimal string is tried as a stamp content
MaxVersion == 11
\* longest archive (in entries) that is unpacked
MaxArchiveLen == 2

(*************************** program constants ****************************)
CURRENT_CIEL_VERSION == 3
\* "3".as_bytes()
CURRENT_CIEL_VERSION_STR == <<51>>
CIEL_DIST_DIR == <<".ciel", "container", "dist">>
CIEL_INST_DIR == <<".ciel", "container", "instances">>
CIEL_DATA_DIR == <<".ciel", "data">>
SKELETON_DIRS == <<CIEL_DIST_DIR, CIEL_INST_DIR, CIEL_DATA_DIR>>
CIEL_MAINLINE_ARCHS == <<"amd64", "arm64", "ppc64el", "mips64r6el", "riscv64">>
CIEL_RETRO_ARCHS == <<"armv4", "armv6hf", "armv7hf", "i486", "m68k", "powerpc">>
\* the literal ".ciel/version" of ciel_init and is_legacy_workspace
VERSION_FILE == <<".ciel", "version">>
\* the literal ".ciel" of find_ciel_dir
CIEL_MARKER == <<".ciel">>

(************************** the working directory *************************)
Kinds == {"none", "file", "dir"}
Range(s) == {s[i] : i \in 1..Len(s)}
Prefixes(p) == {SubSeq(p, 1, i) : i \in 1..Len(p)}
IsPrefix(p, q) == Len(p) <= Len(q) /\ SubSeq(q, 1, Len(p)) = p
\* every path the program names below the working directory
Paths == UNION {Prefixes(p) : p \in Range(SKELETON_DIRS)} \cup {VERSION_FILE}
LeafDirs == Range(SKELETON_DIRS)
Parent(p) == SubSeq(p, 1, Len(p) - 1)

\* Path::exists
exists(f, p) == f.kind[p] # "none"
\* Path::is_dir
is_dir(f, p) == f.kind[p] = "dir"

\* fs::create_dir_all: every missing component is created, an existing
\* directory is not an error, a component that is a file is
RECURSIVE MkdirFrom(_, _, _)
MkdirFrom(f, p, i) ==
    IF i > Len(p) THEN [ok |-> TRUE, fs |-> f]
    ELSE LET q == SubSeq(p, 1, i) IN
         IF f.kind[q] = "file" THEN [ok |-> FALSE, fs |-> f]
         ELSE MkdirFrom([f EXCEPT !.kind[q] = "dir"], p, i + 1)
create_dir_all(f, p) == MkdirFrom(f, p, 1)

\* OpenOptions::new().write(true).create(true): File::create without the
\* truncation
file_create_keep(f, p) ==
    IF f.kind[p] = "dir" \/ f.kind[Parent(p)] # "dir"
    THEN [ok |-> FALSE, fs |-> f]
    ELSE [ok |-> TRUE, fs |-> [f EXCEPT !.kind[p] = "file"]]
\* File::create: create or truncate
file_create(f, p) ==
    IF f.kind[p] = "dir" \/ f.kind[Parent(p)] # "dir"
    THEN [ok |-> FALSE, fs |-> f]
    ELSE [ok |-> TRUE, fs |-> [f EXCEPT !.kind[p] = "file", !.version = <<>>]]

\* Write::write_all on a handle at offset 0: the bytes replace the first
\* Len(bytes) bytes of the file and what follows them stays
write_all(f, bytes) ==
    [f EXCEPT !.version = bytes \o SubSeq(f.version, Len(bytes) + 1, Len(f.version))]

(******************************* ciel_init ********************************)
\* what the environment can make fail in ciel_init (disk full, permissions):
\* the i-th create_dir_all, File::create, write_all
InitFaults == {"none", "mkdir1", "mkdir2", "mkdir3", "create", "write"}
MkdirFault(i) == IF i = 1 THEN "mkdir1" ELSE IF i = 2 THEN "mkdir2" ELSE "mkdir3"

\* for dir in SKELETON_DIRS { fs::create_dir_all(dir)?; }
RECURSIVE InitDirs(_, _, _)
InitDirs(f, i, fault) ==
    IF i > Len(SKELETON_DIRS) THEN [ok |-> TRUE, fs |-> f]
    ELSE IF fault = MkdirFault(i) THEN [ok |-> FALSE, fs |-> f]
    ELSE LET r == create_dir_all(f, SKELETON_DIRS[i]) IN
         IF ~r.ok THEN r ELSE InitDirs(r.fs, i + 1, fault)

ciel_init(f, fault) ==
    LET d == InitDirs(f, 1, fault) IN
    IF ~d.ok THEN d
    ELSE IF fault = "create" THEN [ok |-> FALSE, fs |-> d.fs]
    ELSE LET c == file_create(d.fs, VERSION_FILE) IN
         IF ~c.ok THEN c
         ELSE IF fault = "write" THEN [ok |-> FALSE, fs |-> c.fs]
         ELSE [ok |-> TRUE, fs |-> write_all(c.fs, CURRENT_CIEL_VERSION_STR)]

(************************* extract_system_tarball *************************)
\* what an archive can hold: <<name, attributes>> (permission bits and
\* extended attributes taken together)
ArchiveEntries == {<<"bin", "r-x">>, <<"etc", "rw-">>}
\* what the base-image directory can be found holding
DistEntries == ArchiveEntries \cup {<<"bin", "rwx">>}
BoundedSeq(S, n) == UNION {[1..k -> S] : k \in 0..n}
Archives == BoundedSeq(ArchiveEntries, MaxArchiveLen)
\* the sets of entries a directory can hold: one pair per name
UniqueNames(c) == \A x \in c : \A y \in c : x[1] = y[1] => x = y
DistContents == {c \in SUBSET DistEntries : UniqueNames(c)}
OtherContents == {{}, {<<"keep", "rw-">>}}
Contents(p) == IF p = CIEL_DIST_DIR THEN DistContents ELSE OtherContents

\* the subtree at p is gone
RemoveTree(f, p) ==
    [kind |-> [q \in Paths |-> IF IsPrefix(p, q) THEN "none" ELSE f.kind[q]],
     version |-> IF IsPrefix(p, VERSION_FILE) THEN <<>> ELSE f.version,
     content |-> [q \in LeafDirs |-> IF IsPrefix(p, q) THEN {} ELSE f.content[q]]]

\* fs::remove_dir_all.  rm is what the environment lets it do: rm.ok, or a
\* failure part-way (an entry that cannot be unlinked) that leaves the
\* directory with the entries rm.kept.  A path that is no directory fails.
remove_dir_all(f, p, rm) ==
    IF f.kind[p] # "dir" THEN [ok |-> FALSE, fs |-> f]
    ELSE IF rm.ok THEN [ok |-> TRUE, fs |-> RemoveTree(f, p)]
    ELSE IF p \in LeafDirs
         THEN [ok |-> FALSE, fs |-> [f EXCEPT !.content[p] = f.content[p] \cap rm.kept]]
         ELSE [ok |-> FALSE, fs |-> f]

\* one entry unpacked with set_unpack_xattrs(true) and
\* set_preserve_permissions(true): it replaces an entry of the same name
\* and carries the archive's attributes
unpack_entry(c, e) == {x \in c : x[1] # e[1]} \cup {e}
RECURSIVE UnpackFrom(_, _, _, _)
UnpackFrom(c, archive, i, n) ==
    IF i > n THEN c ELSE UnpackFrom(unpack_entry(c, archive[i]), archive, i + 1, n)

\* extract_tar_xz: Archive::unpack creates the destination when nothing is
\* there, then replays the entries in archive order.  good = -1: the whole
\* stream unpacks; good = n >= 0: the stream or an entry write fails after n
\* entries.  Entries are tracked for the skeleton's leaf directories only.
extract_tar_xz(f, archive, path, good) ==
    LET mk == IF exists(f, path) THEN [ok |-> TRUE, fs |-> f]
              ELSE create_dir_all(f, path)
    IN  IF ~mk.ok \/ ~is_dir(mk.fs, path) THEN [ok |-> FALSE, fs |-> mk.fs]
        ELSE LET n == IF good < 0 THEN Len(archive) ELSE good IN
             [ok |-> good < 0,
              fs |-> IF path \in LeafDirs
                     THEN [mk.fs EXCEPT !.content[path] = UnpackFrom(@, archive, 1, n)]
                     ELSE mk.fs]

\* the directory emptied before the unpack, were the container directory
\* named instead of the base-image directory
dist_dir_container == <<".ciel", "container">>
\* let dist_dir = PathBuf::from(CIEL_DIST_DIR)
dist_dir == CIEL_DIST_DIR

\* in: archive, open (File::open succeeds), rm (see remove_dir_all),
\* mkdir (the environment lets create_dir_all work), good (see extract_tar_xz)
extract_system_tarball(f, in) ==
    IF ~in.open THEN [ok |-> FALSE, fs |-> f]
    ELSE IF exists(f, dist_dir)
         THEN LET f1 == remove_dir_all(f, dist_dir, in.rm).fs
                  mk == IF in.mkdir THEN create_dir_all(f1, dist_dir)
                        ELSE [ok |-> FALSE, fs |-> f1]
              IN  IF ~mk.ok THEN mk
                  ELSE extract_tar_xz(mk.fs, in.archive, dist_dir, in.good)
         ELSE extract_tar_xz(f, in.archive, dist_dir, in.good)

(*************************** is_legacy_workspace **************************)
\* File::open(".ciel/version")?, read_exact of one byte?, then the byte is
\* compared with the first byte of CURRENT_CIEL_VERSION_STR
is_legacy_workspace_read(f) ==
    IF f.kind[VERSION_FILE] # "file" THEN [ok |-> FALSE, flag |-> FALSE]
    ELSE LET b == IF Len(f.version) < 1 THEN 0 ELSE f.version[1] IN
         [ok |-> TRUE, flag |-> b < CURRENT_CIEL_VERSION_STR[1]]
is_legacy_workspace(f) ==
    IF f.kind[VERSION_FILE] # "file" THEN [ok |-> FALSE, flag |-> FALSE]
    ELSE IF Len(f.version) < 1 THEN [ok |-> FALSE, flag |-> FALSE]
    ELSE [ok |-> TRUE, flag |-> f.version[1] < CURRENT_CIEL_VERSION_STR[1]]

(****************************** architectures *****************************)
contains(s, x) == \E i \in 1..Len(s) : s[i] = x
check_arch_name_mainline(arch) == contains(CIEL_MAINLINE_ARCHS, arch)
check_arch_name(arch) ==
    contains(CIEL_MAINLINE_ARCHS, arch) \/ contains(CIEL_RETRO_ARCHS, arch)

\* libc's values of the prctl(PR_GET_ENDIAN) result
PR_ENDIAN_BIG == 0
PR_ENDIAN_LITTLE == 1
PR_ENDIAN_PPC_LITTLE == 2

\* #[cfg(feature = "mips64r6")] get_arch_name
get_arch_name_mips64r6 == [ok |-> TRUE, tag |-> "mips64r6el"]
\* #[cfg(target_arch = "powerpc64")] get_arch_name: result is prctl's return
\* value, endian what it stored (-1 when it stored nothing)
get_arch_name_powerpc64(result, endian) ==
    IF result < 0 THEN [ok |-> FALSE, tag |-> ""]
    ELSE IF endian = PR_ENDIAN_LITTLE \/ endian = PR_ENDIAN_PPC_LITTLE
         THEN [ok |-> TRUE, tag |-> "ppc64el"]
    ELSE IF endian = PR_ENDIAN_BIG THEN [ok |-> TRUE, tag |-> "ppc64"]
    ELSE [ok |-> FALSE, tag |-> ""]
\* get_host_arch_name: the table over std::env::consts::ARCH
get_host_arch_name(ARCH) ==
    CASE ARCH = "x86_64" -> [ok |-> TRUE, tag |-> "amd64"]
      [] ARCH = "x86" -> [ok |-> TRUE, tag |-> "i486"]
      [] ARCH = "powerpc" -> [ok |-> TRUE, tag |-> "powerpc"]
      [] ARCH = "aarch64" -> [ok |-> TRUE, tag |-> "arm64"]
      [] ARCH = "mips64" -> [ok |-> TRUE, tag |-> "loongson3"]
      [] ARCH = "riscv64" -> [ok |-> TRUE, tag |-> "riscv64"]
      [] OTHER -> [ok |-> FALSE, tag |-> ""]
\* the detection the build selects
HostDetect(h) ==
    CASE h.build = "mips64r6" -> get_arch_name_mips64r6
      [] h.build = "powerpc64" -> get_arch_name_powerpc64(h.result, h.endian)
      [] OTHER -> get_host_arch_name(h.ARCH)

\* the platforms: a build and what the platform answers
GenericArchs == {"x86_64", "x86", "powerpc", "aarch64", "mips64", "riscv64",
                 "arm", "m68k", "s390x", "sparc64", "loongarch64"}
Hosts ==
    {[build |-> "generic", ARCH |-> a, result |-> 0, endian |-> -1] : a \in GenericArchs}
    \cup {[build |-> "mips64r6", ARCH |-> "mips64", result |-> 0, endian |-> -1]}
    \cup {[build |-> "powerpc64", ARCH |-> "powerpc64", result |-> -1, endian |-> -1]}
    \cup {[build |-> "powerpc64", ARCH |-> "powerpc64", result |-> 0, endian |-> e] :
            e \in {PR_ENDIAN_BIG, PR_ENDIAN_LITTLE, PR_ENDIAN_PPC_LITTLE, 3}}

\* ask_for_target_arch: attended is user_attended(), pick what interact()
\* returns (-1: an error, so unwrap_or_default gives index 0)
IndexOf(s, x) == IF contains(s, x) THEN CHOOSE i \in 1..Len(s) : s[i] = x ELSE 0
ask_for_target_arch(h, attended, pick) ==
    LET d == get_host_arch_name(h.ARCH)
        all_archs == CIEL_MAINLINE_ARCHS \o CIEL_RETRO_ARCHS
    IN  IF ~d.ok THEN [ok |-> FALSE, tag |-> "", err |-> "panic"]
        ELSE IF ~attended THEN [ok |-> TRUE, tag |-> d.tag, err |-> ""]
        ELSE IF IndexOf(all_archs, d.tag) = 0
             THEN [ok |-> FALSE, tag |-> "", err |-> "panic"]
        ELSE [ok |-> TRUE, tag |-> all_archs[IF pick < 0 THEN 1 ELSE pick + 1],
              err |-> ""]

(****************************** find_ciel_dir *****************************)
Nodes == 1..NumDirs
\* the working directory of the workspace calls
Cwd == NumDirs
\* a start path that names nothing
NoDir == 0
\* what ".ciel" is in directory n
Marker(n) == IF n = Cwd THEN fs.kind[CIEL_MARKER] ELSE marker[n]
\* the directory the path start/../.. (ups times "..") names: ".." of the
\* root is the root
RECURSIVE Resolve(_, _)
Resolve(n, ups) == IF ups = 0 THEN n ELSE Resolve(parent[n], ups - 1)
\* current_dir.exists(): the directories of the tree do not go away during
\* a call, but a lookup fails once the path text is longer than the
\* platform accepts
path_exists(start, ups) == start \in Nodes /\ ups <= MaxJoins

\* one pass of the loop with the marker looked at before the device
LoopOutcomeMarkerFirst(c) ==
    LET cur == Resolve(c.start, c.ups) IN
    IF ~path_exists(c.start, c.ups) THEN "ceiling"
    ELSE IF Marker(cur) = "dir" THEN "found"
    ELSE IF dev[cur] # c.start_dev THEN "boundary"
    ELSE "ascend"
\* one pass of the loop with join(".ciel").exists() for is_dir()
LoopOutcomeMarkerExists(c) ==
    LET cur == Resolve(c.start, c.ups) IN
    IF ~path_exists(c.start, c.ups) THEN "ceiling"
    ELSE IF dev[cur] # c.start_dev THEN "boundary"
    ELSE IF Marker(cur) # "none" THEN "found"
    ELSE "ascend"
\* one pass of the loop of find_ciel_dir, its tests in the code's order
LoopOutcome(c) ==
    LET cur == Resolve(c.start, c.ups) IN
    IF ~path_exists(c.start, c.ups) THEN "ceiling"
    ELSE IF dev[cur] # c.start_dev THEN "boundary"
    ELSE IF Marker(cur) = "dir" THEN "found"
    ELSE "ascend"

(********************************* calls **********************************)
NoCall ==
    [op |-> "none", pc |-> "done", ok |-> FALSE, err |-> "", flag |-> FALSE,
     tag |-> "", start |-> NoDir, start_dev |-> 0, ups |-> 0,
     archive |-> <<>>, fault |-> "none"]
Returned(op) == call.op = op /\ call.pc = "done"
tree == <<parent, dev, marker>>

CallCielInit ==
    /\ call.pc = "done"
    /\ \E fault \in InitFaults :
         LET r == ciel_init(fs, fault) IN
         /\ fs' = r.fs
         /\ call' = [NoCall EXCEPT !.op = "ciel_init", !.ok = r.ok, !.fault = fault]
         /\ inited' = r.ok
    /\ UNCHANGED <<tree, host>>

\* what the environment can do to one extract_system_tarball call
RmOutcomes(f) ==
    IF ~is_dir(f, dist_dir) THEN {[ok |-> TRUE, kept |-> {}]}
    ELSE {[ok |-> TRUE, kept |-> {}]}
         \cup {[ok |-> FALSE, kept |-> k] : k \in SUBSET f.content[CIEL_DIST_DIR]}
ExtractInputs(f) ==
    {[open |-> FALSE, archive |-> <<>>, rm |-> [ok |-> TRUE, kept |-> {}],
      mkdir |-> TRUE, good |-> -1]}
    \cup {[open |-> TRUE, archive |-> <<>>, rm |-> r, mkdir |-> FALSE, good |-> -1] :
            r \in IF exists(f, dist_dir) THEN RmOutcomes(f) ELSE {}}
    \cup UNION {{[open |-> TRUE, archive |-> a, rm |-> r, mkdir |-> TRUE, good |-> g] :
                   r \in RmOutcomes(f), g \in -1..Len(a)} : a \in Archives}
ExtractFault(in) ==
    IF ~in.open THEN "open" ELSE IF ~in.mkdir THEN "mkdir"
    ELSE IF in.good >= 0 THEN "unpack" ELSE "none"

CallExtract ==
    /\ call.pc = "done"
    /\ \E in \in ExtractInputs(fs) :
         LET r == extract_system_tarball(fs, in) IN
         /\ fs' = r.fs
         /\ call' = [NoCall EXCEPT !.op = "extract_system_tarball", !.ok = r.ok,
                                   !.archive = in.archive, !.fault = ExtractFault(in)]
    /\ UNCHANGED <<tree, host, inited>>

CallIsLegacy ==
    /\ call.pc = "done"
    /\ LET r == is_legacy_workspace(fs) IN
       call' = [NoCall EXCEPT !.op = "is_legacy_workspace", !.ok = r.ok, !.flag = r.flag]
    /\ UNCHANGED <<tree, fs, host, inited>>

\* let start_path = fs::metadata(start)?; start_dev; current_dir = start
FindStart ==
    /\ call.pc = "done"
    /\ \E start \in Nodes \cup {NoDir} :
         call' = IF start = NoDir
                 THEN [NoCall EXCEPT !.op = "find_ciel_dir", !.err = "io"]
                 ELSE [NoCall EXCEPT !.op = "find_ciel_dir", !.pc = "loop",
                                     !.start = start, !.start_dev = dev[start]]
    /\ UNCHANGED <<tree, fs, host, inited>>
InLoop(outcome) ==
    call.op = "find_ciel_dir" /\ call.pc = "loop" /\ LoopOutcome(call) = outcome
FindCeiling ==
    /\ InLoop("ceiling")
    /\ call' = [call EXCEPT !.pc = "done", !.err = "Hit filesystem ceiling!"]
    /\ UNCHANGED <<tree, fs, host, inited>>
FindBoundary ==
    /\ InLoop("boundary")
    /\ call' = [call EXCEPT !.pc = "done", !.err = "Hit filesystem boundary!"]
    /\ UNCHANGED <<tree, fs, host, inited>>
\* return Ok(current_dir): the path is start joined with call.ups ".."
FindFound ==
    /\ InLoop("found")
    /\ call' = [call EXCEPT !.pc = "done", !.ok = TRUE]
    /\ UNCHANGED <<tree, fs, host, inited>>
\* current_dir = current_dir.join("..")
FindAscend ==
    /\ InLoop("ascend")
    /\ call' = [call EXCEPT !.ups = @ + 1]
    /\ UNCHANGED <<tree, fs, host, inited>>
FindCielDir == FindStart \/ FindCeiling \/ FindBoundary \/ FindFound \/ FindAscend

\* the tags check_arch_name is asked about
Tags ==
    Range(CIEL_MAINLINE_ARCHS) \cup Range(CIEL_RETRO_ARCHS)
    \cup {"sparc64", "AMD64", "ppc64", "loongson3", "mips64el", "Amd64", ""}
CallCheckArch ==
    /\ call.pc = "done"
    /\ \E t \in Tags :
         call' = [NoCall EXCEPT !.op = "check_arch_name", !.ok = TRUE, !.tag = t,
                                !.flag = check_arch_name(t)]
    /\ UNCHANGED <<tree, fs, host, inited>>
CallHostArch ==
    /\ call.pc = "done"
    /\ LET r == HostDetect(host) IN
       call' = [NoCall EXCEPT !.op = "host_arch", !.ok = r.ok, !.tag = r.tag]
    /\ UNCHANGED <<tree, fs, host, inited>>
CallAskArch ==
    /\ call.pc = "done"
    /\ host.build = "generic"
    /\ \E attended \in BOOLEAN :
       \E pick \in -1..(Len(CIEL_MAINLINE_ARCHS) + Len(CIEL_RETRO_ARCHS) - 1) :
         LET r == ask_for_target_arch(host, attended, pick) IN
         call' = [NoCall EXCEPT !.op = "ask_for_target_arch", !.ok = r.ok,
                                !.tag = r.tag, !.err = r.err]
    /\ UNCHANGED <<tree, fs, host, inited>>

(***************************** initial states *****************************)
\* the decimal string of v, as bytes
RECURSIVE Decimal(_)
Decimal(v) == IF v < 10 THEN <<48 + v>> ELSE Decimal(v \div 10) \o <<48 + (v % 10)>>
\* the stamp contents a directory is found with
Stamps == {<<>>} \cup {Decimal(v) : v \in 0..MaxVersion}

ConsistentKinds ==
    {k \in [Paths -> Kinds] :
        \A p \in Paths : (Len(p) > 1 /\ k[p] # "none") => k[Parent(p)] = "dir"}
AllContents == UNION {Contents(p) : p \in LeafDirs}
ContentsFor(k) ==
    {c \in [LeafDirs -> AllContents] :
        \A p \in LeafDirs : c[p] \in (IF k[p] = "dir" THEN Contents(p) ELSE {{}})}
\* every state the working directory can be found in, its stamp among stamps
FsStates(stamps) ==
    UNION {{[kind |-> k, version |-> v, content |-> c] :
              v \in (IF k[VERSION_FILE] = "file" THEN stamps ELSE {<<>>}),
              c \in ContentsFor(k)} : k \in ConsistentKinds}
\* a fresh empty directory
EmptyFs ==
    [kind |-> [p \in Paths |-> "none"], version |-> <<>>,
     content |-> [p \in LeafDirs |-> {}]]
DefaultHost == [build |-> "generic", ARCH |-> "x86_64", result |-> 0, endian |-> -1]

\* one tree: the root, a directory of another device mounted on it, and a
\* chain from the root down to the working directory
FixedTree ==
    /\ parent = [n \in Nodes |-> IF n <= 3 THEN 1 ELSE n - 1]
    /\ dev = [n \in Nodes |-> IF n = 2 THEN 1 ELSE 0]
    /\ marker = [n \in Nodes |-> "none"]
\* every tree of NumDirs directories over two devices
AnyTree ==
    /\ parent \in {p \in [Nodes -> Nodes] : p[1] = 1 /\ \A n \in Nodes : n > 1 => p[n] < n}
    /\ dev \in [Nodes -> {0, 1}]
    /\ marker \in {m \in [Nodes -> Kinds] : m[Cwd] = "none"}

\* the stamps the install runs start from: the previous version and the
\* current one (a failed ciel_init leaves the empty one)
InstallStamps == {Decimal(CURRENT_CIEL_VERSION - 1), CURRENT_CIEL_VERSION_STR}
\* the directories the install runs start from: a file in the place of the
\* instances or data directory, or a directory in the place of the stamp,
\* stops ciel_init only and is left to the stamp runs
InstallFs ==
    {f \in FsStates(InstallStamps) :
        /\ f.kind[CIEL_INST_DIR] # "file"
        /\ f.kind[CIEL_DATA_DIR] # "file"
        /\ f.kind[VERSION_FILE] # "dir"}
\* the workspace calls in one working directory
Init ==
    /\ FixedTree
    /\ fs \in InstallFs
    /\ host = DefaultHost
    /\ call = NoCall
    /\ inited = FALSE
Next == CallCielInit \/ CallExtract \/ CallIsLegacy \/ FindCielDir
Spec == Init /\ [][Next]_vars

\* ciel_init and is_legacy_workspace over every stamp
InitStamp ==
    /\ FixedTree
    /\ fs \in FsStates(Stamps)
    /\ host = DefaultHost
    /\ call = NoCall
    /\ inited = FALSE
NextStamp == CallCielInit \/ CallIsLegacy
SpecStamp == InitStamp /\ [][NextStamp]_vars

\* find_ciel_dir over every tree
InitLocate ==
    /\ AnyTree
    /\ fs \in {[EmptyFs EXCEPT !.kind[CIEL_MARKER] = k] : k \in Kinds}
    /\ host = DefaultHost
    /\ call = NoCall
    /\ inited = FALSE
NextLocate == FindCielDir
SpecLocate == InitLocate /\ [][NextLocate]_vars

\* the architecture calls on every platform
InitArch ==
    /\ FixedTree
    /\ fs = EmptyFs
    /\ host \in Hosts
    /\ call = NoCall
    /\ inited = FALSE
NextArch == CallCheckArch \/ CallHostArch \/ CallAskArch
SpecArch == InitArch /\ [][NextArch]_vars

(********************************* claims *********************************)
\* the directory a returned path names
Result == Resolve(call.start, call.ups)
\* the k-th directory on the chain from the start path upwards
Chain(k) == Resolve(call.start, k)

\* C1: whenever find_ciel_dir(P) returns Ok, the directory returned holds
\* ".ciel" as a directory and no directory on the chain from P up to, and
\* excluding, the result does: it is the nearest marked ancestor-or-self.
C1_NearestMarkedAncestor ==
    (Returned("find_ciel_dir") /\ call.ok) =>
        /\ Marker(Result) = "dir"
        /\ \A k \in 0..(call.ups - 1) : Marker(Chain(k)) # "dir"
\* a call that climbed past a directory where ".ciel" is a file
C1_Witness ==
    /\ Returned("find_ciel_dir") /\ call.ok
    /\ call.ups >= 1
    /\ Marker(call.start) = "file"

\* a call started where no ancestor-or-self holds ".ciel" and every
\* ancestor is on the start's device
C2_Premise ==
    /\ call.op = "find_ciel_dir" /\ call.start \in Nodes
    /\ \A k \in 0..NumDirs :
         Marker(Chain(k)) # "dir" /\ dev[Chain(k)] = dev[call.start]
\* C2: started where no ancestor-or-self holds ".ciel" and every ancestor is
\* on the start's device, find_ciel_dir looks at each directory of the chain
\* once (the root included) and then ends with a failure.
C2_RootExaminedOnce ==
    C2_Premise =>
        /\ \A k \in 0..(call.ups - 1) : Chain(k) # Chain(call.ups)
        /\ call.pc = "done" => ~call.ok

\* C3: find_ciel_dir never returns a directory of another device than the
\* start's, and when the first directory of another device comes before any
\* marked directory of the chain the call fails with "Hit filesystem
\* boundary!", whatever that directory or the ones above it hold.
C3_DeviceBeforeMarker ==
    (Returned("find_ciel_dir") /\ call.start \in Nodes) =>
        /\ call.ok => dev[Result] = dev[call.start]
        /\ \A k \in 0..MaxJoins :
             ( /\ dev[Chain(k)] # dev[call.start]
               /\ \A j \in 0..(k - 1) :
                    dev[Chain(j)] = dev[call.start] /\ Marker(Chain(j)) # "dir" )
             => (~call.ok /\ call.err = "Hit filesystem boundary!")
\* a call stopped at a marked directory of another device
C3_Witness ==
    /\ Returned("find_ciel_dir")
    /\ call.err = "Hit filesystem boundary!"
    /\ Marker(Result) = "dir"

\* C4: for a stamp that is the decimal string of v >= 0,
\* is_legacy_workspace returns Ok(true) iff v < 3.
C4_NumericOrder ==
    \A v \in 0..MaxVersion :
        ( /\ Returned("is_legacy_workspace")
          /\ fs.kind[VERSION_FILE] = "file"
          /\ fs.version = Decimal(v) )
        => (call.ok /\ (call.flag <=> v < CURRENT_CIEL_VERSION))

\* C5: every tag host detection returns is accepted by check_arch_name.
C5_HostTagSupported ==
    (Returned("host_arch") /\ call.ok) => check_arch_name(call.tag)

\* the entries of an archive: for each name, the last entry of that name
LastEntries(a) ==
    {a[i] : i \in {i \in 1..Len(a) : \A j \in (i + 1)..Len(a) : a[j][1] # a[i][1]}}
\* C6: after extract_system_tarball returns Ok the base-image directory
\* holds exactly the entries of the archive unpacked, whatever it held
\* before and whether or not the removal worked.
C6_ReplacedWholesale ==
    (Returned("extract_system_tarball") /\ call.ok) =>
        /\ fs.kind[CIEL_DIST_DIR] = "dir"
        /\ fs.content[CIEL_DIST_DIR] = LastEntries(call.archive)

\* the end state of ciel_init in a fresh directory: the five directories,
\* all empty, and the stamp "3"
SkeletonFs ==
    [kind |-> [p \in Paths |-> IF p = VERSION_FILE THEN "file" ELSE "dir"],
     version |-> <<51>>,
     content |-> [p \in LeafDirs |-> {}]]
\* one step that is a ciel_init call
C7_InitStep ==
    call'.op = "ciel_init" =>
        /\ call'.ok =>
             /\ \A p \in Paths \ {VERSION_FILE} : fs'.kind[p] = "dir"
             /\ fs'.kind[VERSION_FILE] = "file"
             /\ fs'.version = <<51>>
             /\ fs'.content = fs.content
        /\ (fs = EmptyFs /\ call'.fault = "none") => (call'.ok /\ fs' = SkeletonFs)
        /\ (fs = SkeletonFs /\ call'.fault = "none") => (call'.ok /\ fs' = fs)
\* C7: a ciel_init that returns Ok leaves the skeleton directories, the
\* entries there were, and a stamp that is exactly "3", whatever the stamp
\* was; in a fresh directory it succeeds (the environment permitting) and
\* ends in the skeleton state; run on the skeleton state it succeeds and
\* changes nothing.
C7_InitIdempotent == [][C7_InitStep]_vars
\* ciel_init has returned Ok and the directory is in the skeleton state
C7_Witness == Returned("ciel_init") /\ call.ok /\ fs = SkeletonFs

\* the eleven tags of the claim
ElevenTags ==
    {"amd64", "arm64", "ppc64el", "mips64r6el", "riscv64",
     "armv4", "armv6hf", "armv7hf", "i486", "m68k", "powerpc"}
\* C8: check_arch_name is true of exactly the eleven tags, and the mainline
\* and retro sets share no tag.
C8_ExactMembership ==
    /\ Returned("check_arch_name") => (call.flag <=> call.tag \in ElevenTags)
    /\ Range(CIEL_MAINLINE_ARCHS) \cap Range(CIEL_RETRO_ARCHS) = {}
    /\ Cardinality(Range(CIEL_MAINLINE_ARCHS) \cup Range(CIEL_RETRO_ARCHS)) = 11
\* a tag that differs from a supported one in case only has been rejected
C8_Witness == Returned("check_arch_name") /\ call.tag = "AMD64" /\ ~call.flag

\* one step that is an is_legacy_workspace call
C9_LegacyStep ==
    call'.op = "is_legacy_workspace" =>
        /\ fs' = fs
        /\ (fs.kind[VERSION_FILE] = "none" \/
            (fs.kind[VERSION_FILE] = "file" /\ fs.version = <<>>)) => ~call'.ok
\* C9: is_legacy_workspace returns an error when the stamp file is missing
\* or empty, and changes nothing in the working directory in any case.
C9_MissingOrEmptyIsError == [][C9_LegacyStep]_vars
\* the call has failed on an empty stamp file
C9_Witness ==
    /\ Returned("is_legacy_workspace") /\ ~call.ok
    /\ fs.kind[VERSION_FILE] = "file" /\ fs.version = <<>>

\* one step of an initialised workspace
C10_Step ==
    /\ inited' =>
         /\ fs'.kind[CIEL_MARKER] = "dir"
         /\ fs'.kind[VERSION_FILE] = "file" /\ fs'.version = <<51>>
         /\ call'.op = "is_legacy_workspace" => (call'.ok /\ ~call'.flag)
         /\ (call'.op = "find_ciel_dir" /\ call'.pc = "done" /\ call'.start = Cwd)
              => (call'.ok /\ call'.ups = 0)
    /\ (inited /\ call'.op = "extract_system_tarball") =>
         /\ inited'
         /\ \A p \in Paths \ {CIEL_DIST_DIR} : fs'.kind[p] = fs.kind[p]
         /\ fs'.version = fs.version
         /\ \A p \in LeafDirs \ {CIEL_DIST_DIR} : fs'.content[p] = fs.content[p]
\* C10: once ciel_init has returned Ok, and through every install after it,
\* the stamp is "3", is_legacy_workspace returns Ok(false), find_ciel_dir
\* started at the working directory returns it, and an install, failed or
\* not, changes nothing but the base-image directory.
C10_WorkspaceStaysCurrent == [][C10_Step]_vars
\* a failed install into an initialised workspace whose instances
\* directory has an entry
C10_Witness ==
    /\ inited /\ Returned("extract_system_tarball") /\ ~call.ok
    /\ fs.content[CIEL_INST_DIR] # {}

====
